---- MODULE Spec2Model ----
(***************************************************************************)
(* waybar-manager: window-manager detection, monitor parsing, the cache    *)
(* decision, the monitor -> template assignment, and the launch run that   *)
(* ties them together.                                                     *)
(*                                                                         *)
(* Two kinds of specification live here:                                   *)
(*   SpecFn  - the pure functions, applied to every input of a bounded set *)
(*   Spec    - the program as a state machine over its persisted files     *)
(*   SpecPrompt - the confirmation prompt of a launch run: the main thread, *)
(*             the thread that reads the input, the user and the clock     *)
(*   SpecSpawn - steps 7 and 8 of a launch run, one process at a time:     *)
(*             the running bars are killed, the new ones are spawned       *)
(***************************************************************************)
EXTENDS Integers, Sequences, FiniteSets, TLC

VARIABLES
    arg,          \* SpecFn: the arguments of the pure function under check
    res,          \* SpecFn: its result, once applied
    env,          \* the session's signals: HYPRLAND_INSTANCE_SIGNATURE, pgrep -x mango, pgrep -x niri
    config_file,  \* ~/.local/share/omynix/waybar-manager/config.toml
    cache_file,   \* ~/.local/share/omynix/waybar-manager/waybar_cache.toml
    template,     \* content of ~/.config/waybar/templates/<wm>.jsonc (0 = no file)
    generated,    \* ~/.config/waybar/generated/: path -> content
    bars,         \* running waybar processes, each named by its -c path
    run,          \* what the last operation did (history, for stating properties)
    prompt,       \* SpecPrompt: the threads, the channel and the clock of ask_update_config
    spawn,        \* SpecSpawn: the position of a launch run within its steps 7 and 8
    ops           \* how many operations have run so far

vars == <<arg, res, env, config_file, cache_file, template, generated, bars, run, prompt, spawn, ops>>
fnVars == <<arg, res>>
sysVars == <<env, config_file, cache_file, template, generated, bars, run, prompt, spawn, ops>>

----------------------------------------------------------------------------
(* Bounds *)

\* longest monitor list handed to should_regenerate (cache side and target side)
MaxMonLen == 2
\* longest connected list handed to determine_config_assignments in SpecFn
MaxConnLen == 3
\* most lines in a window-manager output handed to parse_monitors
MaxLines == 2
\* most monitors a window manager reports in one run of Spec
MaxConnected == 2
\* the longest template text whose comments are cleared
MaxTplLen == 6
\* the most documents of a template file, and the most markers
MaxDocs == 3
\* most operations (runs of the program, edits from outside) in a behaviour of Spec
MaxOps == 5

----------------------------------------------------------------------------
(* Generic helpers *)

Range(s) == {s[i] : i \in 1..Len(s)}

SeqsUpTo(S, n) == UNION {[1..k -> S] : k \in 0..n}

\* Option<T>: None or Some(x)
None == <<>>
Some(x) == <<x>>
IsSome(o) == Len(o) = 1
Unwrap(o) == o[1]

\* Result<T>
Ok(x) == [ok |-> TRUE, val |-> x, err |-> ""]
Err(e) == [ok |-> FALSE, val |-> <<>>, err |-> e]

----------------------------------------------------------------------------
(* Monitor identifiers.  Strings are compared bytewise by Rust's Ord, so   *)
(* "DP-1" < "HDMI-A-1" < "eDP-1" ('D' = 68, 'H' = 72, 'e' = 101).          *)

MonitorNames == {"DP-1", "HDMI-A-1", "eDP-1"}

StrRank(s) ==
    CASE s = "" -> 0
      [] s = "DP-1" -> 1
      [] s = "HDMI-A-1" -> 2
      [] s = "eDP-1" -> 3

\* <String as Ord>::le
StrLe(a, b) == StrRank(a) <= StrRank(b)

RECURSIVE InsertSorted(_, _)
InsertSorted(x, s) ==
    IF s = <<>> THEN <<x>>
    ELSE IF StrLe(x, Head(s)) THEN <<x>> \o s
    ELSE <<Head(s)>> \o InsertSorted(x, Tail(s))

\* Vec<String>::sort()
RECURSIVE sort(_)
sort(s) == IF s = <<>> THEN <<>> ELSE InsertSorted(Head(s), sort(Tail(s)))

----------------------------------------------------------------------------
(* window_manager.rs *)

WindowManagers == {"Hyprland", "Mango", "Niri"}

as_str(wm) ==
    CASE wm = "Hyprland" -> "hyprland"
      [] wm = "Mango" -> "mango"
      [] wm = "Niri" -> "niri"

EnvSignals == [hypr_sig : BOOLEAN, mango : BOOLEAN, niri : BOOLEAN]

\* a mutant that checks the processes before the environment variable
detect_window_manager_ProcessFirst(e) ==
    IF e.mango THEN Ok("Mango")
    ELSE IF e.niri THEN Ok("Niri")
    ELSE IF e.hypr_sig THEN Ok("Hyprland")
    ELSE Err("No compatible window manager was detected (Hyprland, Mango, Niri)")

detect_window_manager(e) ==
    IF e.hypr_sig THEN Ok("Hyprland")
    ELSE IF e.mango THEN Ok("Mango")
    ELSE IF e.niri THEN Ok("Niri")
    ELSE Err("No compatible window manager was detected (Hyprland, Mango, Niri)")

----------------------------------------------------------------------------
(* cache.rs *)

\* the template files the model knows, by content; 0 stands for "no file"
TemplateContents == {1, 2}

\* DefaultHasher (SipHash) of the content, rendered as a decimal string;
\* modelled as a mixing function that is injective on TemplateContents
calculate_template_hash(content) == (content * 7 + 3) % 11

CacheEntry(h, ms, p) == [template_hash |-> h, monitors |-> ms, preferred_monitor |-> p]

\* a mutant that forgets the generated-files check
should_regenerate_NoFilesCheck(cache, template_hash, monitors, preferred_monitor, generated_files_exist) ==
    IF ~IsSome(cache) THEN TRUE
    ELSE IF Unwrap(cache).template_hash # template_hash THEN TRUE
    ELSE IF Unwrap(cache).preferred_monitor # preferred_monitor THEN TRUE
    ELSE sort(Unwrap(cache).monitors) # sort(monitors)

\* a mutant that compares the monitor lists without sorting them
should_regenerate_Unsorted(cache, template_hash, monitors, preferred_monitor, generated_files_exist) ==
    IF ~IsSome(cache) THEN TRUE
    ELSE IF ~generated_files_exist THEN TRUE
    ELSE IF Unwrap(cache).template_hash # template_hash THEN TRUE
    ELSE IF Unwrap(cache).preferred_monitor # preferred_monitor THEN TRUE
    ELSE Unwrap(cache).monitors # monitors

should_regenerate(cache, template_hash, monitors, preferred_monitor, generated_files_exist) ==
    IF ~IsSome(cache) THEN TRUE
    ELSE IF ~generated_files_exist THEN TRUE
    ELSE IF Unwrap(cache).template_hash # template_hash THEN TRUE
    ELSE IF Unwrap(cache).preferred_monitor # preferred_monitor THEN TRUE
    ELSE LET cache_monitors == sort(Unwrap(cache).monitors)
             current_monitors == sort(monitors)
         IN  cache_monitors # current_monitors

----------------------------------------------------------------------------
(* templates.rs: template types, paths, the assignment engine *)

\* the name of a Custom type is its sequence of characters
Full == [tag |-> "Full", name |-> <<>>]
Simple == [tag |-> "Simple", name |-> <<>>]
Custom(n) == [tag |-> "Custom", name |-> n]

type_str(template_type) ==
    CASE template_type.tag = "Full" -> "full"
      [] template_type.tag = "Simple" -> "simple"
      [] template_type.tag = "Custom" -> template_type.name

\* ~/.config/waybar/generated/<wm>_<monitor>_<type>. json
get_generated_config_path(wm, monitor, template_type) ==
    <<as_str(wm), monitor, type_str(template_type)>>

Display(p, av, m) == [preferred_monitor |-> p, available_monitors |-> av, mode |-> m]

\* Config::default()
DefaultConfig == Display("", <<>>, "multiple")

\* HashMap::insert
Insert(map, k, v) == [x \in DOMAIN map \cup {k} |-> IF x = k THEN v ELSE map[x]]

EmptyMap == [x \in {} |-> Full]

\* the for loop of determine_config_assignments over connected[i..]
RECURSIVE AssignLoop(_, _, _)
AssignLoop(assignments, preferred, connected) ==
    IF connected = <<>> THEN assignments
    ELSE LET monitor == Head(connected)
         IN  AssignLoop(Insert(assignments, monitor,
                               IF monitor = preferred THEN Full ELSE Simple),
                        preferred, Tail(connected))

\* a mutant without the single-monitor special case
determine_config_assignments_NoSingleCase(cfg, connected) ==
    AssignLoop(EmptyMap, cfg.preferred_monitor, connected)

\* a mutant that gives the first monitor Full when the preferred one is absent
determine_config_assignments_FirstFallback(cfg, connected) ==
    IF Len(connected) = 1 THEN Insert(EmptyMap, connected[1], Full)
    ELSE IF connected # <<>> /\ cfg.preferred_monitor \notin Range(connected)
         THEN Insert(AssignLoop(EmptyMap, cfg.preferred_monitor, connected), connected[1], Full)
         ELSE AssignLoop(EmptyMap, cfg.preferred_monitor, connected)

determine_config_assignments(cfg, connected) ==
    IF Len(connected) = 1
    THEN Insert(EmptyMap, connected[1], Full)
    ELSE AssignLoop(EmptyMap, cfg.preferred_monitor, connected)


----------------------------------------------------------------------------
(* monitor.rs: parse_monitors.  Text is a sequence of characters.          *)

\* the White_Space characters of the model's alphabet (\s, split_whitespace)
Whitespace == {" ", "\t", "\r", "\n"}

\* how many characters of s from position i on are in S
RECURSIVE SpanIn(_, _, _)
SpanIn(s, i, S) == IF i <= Len(s) /\ s[i] \in S THEN 1 + SpanIn(s, i + 1, S) ELSE 0

\* how many characters of s from position i on are not in S
RECURSIVE SpanNotIn(_, _, _)
SpanNotIn(s, i, S) == IF i <= Len(s) /\ s[i] \notin S THEN 1 + SpanNotIn(s, i + 1, S) ELSE 0

starts_with(s, lit) == Len(s) >= Len(lit) /\ SubSeq(s, 1, Len(lit)) = lit

contains(s, lit) == \E i \in 1..(Len(s) + 1) : i + Len(lit) - 1 <= Len(s) /\ SubSeq(s, i, i + Len(lit) - 1) = lit

\* str::split_inclusive('\n')
RECURSIVE split_inclusive(_)
split_inclusive(text) ==
    IF text = <<>> THEN <<>>
    ELSE LET n == SpanNotIn(text, 1, {"\n"})
         IN  IF n = Len(text) THEN <<text>>
             ELSE <<SubSeq(text, 1, n + 1)>> \o split_inclusive(SubSeq(text, n + 2, Len(text)))

\* the closure of str::lines: strip one "\n", then one "\r" before it
strip_line_ending(seg) ==
    IF seg = <<>> \/ seg[Len(seg)] # "\n" THEN seg
    ELSE LET line == SubSeq(seg, 1, Len(seg) - 1)
         IN  IF line = <<>> \/ line[Len(line)] # "\r" THEN line
             ELSE SubSeq(line, 1, Len(line) - 1)

\* str::lines
lines(text) == LET segs == split_inclusive(text) IN [i \in 1..Len(segs) |-> strip_line_ending(segs[i])]

\* Regex ^Monitor\s+(\S+): capture group 1
hyprland_captures(line) ==
    LET lit == <<"M", "o", "n", "i", "t", "o", "r">>
        ws == SpanIn(line, Len(lit) + 1, Whitespace)
        from == Len(lit) + 1 + ws
        n == SpanNotIn(line, from, Whitespace)
    IN  IF starts_with(line, lit) /\ ws >= 1 /\ n >= 1
        THEN Some(SubSeq(line, from, from + n - 1))
        ELSE None

\* line.split_whitespace().next()
first_token(line) ==
    LET ws == SpanIn(line, 1, Whitespace)
        n == SpanNotIn(line, ws + 1, Whitespace)
    IN  IF n >= 1 THEN Some(SubSeq(line, ws + 1, ws + n)) ELSE None

\* line.contains("selmon") and then the first token
mango_captures(line) ==
    IF contains(line, <<"s", "e", "l", "m", "o", "n">>) THEN first_token(line) ELSE None

\* Regex ^Output\s+"[^"]*"\s+\(([^)]+)\): capture group 1
niri_captures(line) ==
    LET lit == <<"O", "u", "t", "p", "u", "t">>
        ws1 == SpanIn(line, Len(lit) + 1, Whitespace)
        q1 == Len(lit) + 1 + ws1
        name == SpanNotIn(line, q1 + 1, {"\""})
        q2 == q1 + 1 + name
        ws2 == SpanIn(line, q2 + 1, Whitespace)
        open == q2 + 1 + ws2
        n == SpanNotIn(line, open + 1, {")"})
        close == open + 1 + n
    IN  IF /\ starts_with(line, lit) /\ ws1 >= 1
           /\ q1 <= Len(line) /\ line[q1] = "\""
           /\ q2 <= Len(line) /\ line[q2] = "\""
           /\ ws2 >= 1
           /\ open <= Len(line) /\ line[open] = "("
           /\ n >= 1
           /\ close <= Len(line) /\ line[close] = ")"
        THEN Some(SubSeq(line, open + 1, close - 1))
        ELSE None

captures(wm, line) ==
    CASE wm = "Hyprland" -> hyprland_captures(line)
      [] wm = "Mango" -> mango_captures(line)
      [] wm = "Niri" -> niri_captures(line)

\* the for loops of parse_monitors: push the capture of every matching line
RECURSIVE PushMatches(_, _, _)
PushMatches(monitors, wm, ls) ==
    IF ls = <<>> THEN monitors
    ELSE PushMatches(monitors \o captures(wm, Head(ls)), wm, Tail(ls))

\* a mutant that returns the empty list instead of failing
parse_monitors_NoEmptyCheck(wm, output) ==
    Ok(PushMatches(<<>>, wm, lines(output)))

\* a mutant that does not add a monitor it has already seen
RECURSIVE PushMatchesDedup(_, _, _)
PushMatchesDedup(monitors, wm, ls) ==
    IF ls = <<>> THEN monitors
    ELSE LET c == captures(wm, Head(ls))
         IN  PushMatchesDedup(IF IsSome(c) /\ Unwrap(c) \in Range(monitors) THEN monitors ELSE monitors \o c,
                              wm, Tail(ls))

parse_monitors_Dedup(wm, output) ==
    LET monitors == PushMatchesDedup(<<>>, wm, lines(output))
    IN  IF monitors = <<>> THEN Err("No monitors were detected") ELSE Ok(monitors)

parse_monitors(wm, output) ==
    LET monitors == PushMatches(<<>>, wm, lines(output))
    IN  IF monitors = <<>> THEN Err("No monitors were detected") ELSE Ok(monitors)


----------------------------------------------------------------------------
(* monitor.rs: find_matches and lists_match *)

\* every order in which the elements of a HashSet can be iterated
Orders(S) == {o \in [1..Cardinality(S) -> S] : Range(o) = S}

\* a mutant that filters the configured list and keeps its repetitions
find_matches_Filter(configured, connected) ==
    {SelectSeq(configured, LAMBDA x : x \in Range(connected))}

\* monitor.rs: find_matches.  The result is collected from the intersection
\* of two HashSets, in the unspecified order of its iterator.
find_matches(configured, connected) ==
    LET configured_set == Range(configured)
        connected_set == Range(connected)
    IN  Orders(configured_set \cap connected_set)

\* a mutant without the length comparison
lists_match_NoLenCheck(list1, list2) == Range(list1) = Range(list2)

\* monitor.rs: lists_match
lists_match(list1, list2) ==
    IF Len(list1) # Len(list2) THEN FALSE
    ELSE LET set1 == Range(list1)
             set2 == Range(list2)
         IN  set1 = set2


----------------------------------------------------------------------------
(* templates.rs: parse_jsonc_templates, clearing the comments *)

\* `while let Some(c) = chars.next()` of a line comment: skip to the end of
\* the line, push the newline; i is the position of the next character
RECURSIVE SkipComment(_, _, _)
SkipComment(chars, i, result) ==
    IF i > Len(chars) THEN [i |-> i, result |-> result]
    ELSE IF chars[i] = "\n" THEN [i |-> i + 1, result |-> Append(result, "\n")]
    ELSE SkipComment(chars, i + 1, result)

\* `while let Some(c) = chars.next()` of a string: keep everything up to the
\* closing quote
RECURSIVE CopyString(_, _, _, _)
CopyString(chars, i, result, escaped) ==
    IF i > Len(chars) THEN [i |-> i, result |-> result]
    ELSE LET c == chars[i]
             pushed == Append(result, c)
         IN  IF escaped THEN CopyString(chars, i + 1, pushed, FALSE)
             ELSE IF c = "\\" THEN CopyString(chars, i + 1, pushed, TRUE)
             ELSE IF c = "\"" THEN [i |-> i + 1, result |-> pushed]
             ELSE CopyString(chars, i + 1, pushed, escaped)

\* `while let Some(ch) = chars.next() { match ch { .. } }`
RECURSIVE ClearLoop(_, _, _)
ClearLoop(chars, i, result) ==
    IF i > Len(chars) THEN result
    ELSE LET ch == chars[i]
             peek == IF i + 1 <= Len(chars) THEN Some(chars[i + 1]) ELSE None
         IN  IF ch = "/" /\ peek = Some("/")
             THEN LET after == SkipComment(chars, i + 2, result)
                  IN  ClearLoop(chars, after.i, after.result)
             ELSE IF ch = "\""
             THEN LET after == CopyString(chars, i + 1, Append(result, ch), FALSE)
                  IN  ClearLoop(chars, after.i, after.result)
             ELSE ClearLoop(chars, i + 1, Append(result, ch))

\* a mutant that takes every '//' for a comment, inside strings too
RECURSIVE ClearLoopNoStrings(_, _, _)
ClearLoopNoStrings(chars, i, result) ==
    IF i > Len(chars) THEN result
    ELSE IF chars[i] = "/" /\ i + 1 <= Len(chars) /\ chars[i + 1] = "/"
         THEN LET after == SkipComment(chars, i + 2, result)
              IN  ClearLoopNoStrings(chars, after.i, after.result)
         ELSE ClearLoopNoStrings(chars, i + 1, Append(result, chars[i]))

clear_comments_NoStrings(content) == ClearLoopNoStrings(content, 1, <<>>)

\* templates.rs: parse_jsonc_templates, "Clear comments"
clear_comments(content) == ClearLoop(content, 1, <<>>)


----------------------------------------------------------------------------
(* templates.rs: TemplateType::from_comment and the template markers *)

\* how many characters at the end of s are in S
RECURSIVE TrailIn(_, _)
TrailIn(s, S) ==
    IF s # <<>> /\ s[Len(s)] \in S THEN 1 + TrailIn(SubSeq(s, 1, Len(s) - 1), S) ELSE 0

\* str::trim
trim(s) ==
    LET lead == SpanIn(s, 1, Whitespace)
        rest == SubSeq(s, lead + 1, Len(s))
    IN  SubSeq(rest, 1, Len(rest) - TrailIn(rest, Whitespace))

\* str::strip_prefix
strip_prefix(s, prefix) ==
    IF starts_with(s, prefix) THEN Some(SubSeq(s, Len(prefix) + 1, Len(s))) ELSE None

TPL == <<"T", "P", "L", ":">>

\* templates.rs: TemplateType::from_comment
from_comment(comment) ==
    IF contains(comment, TPL \o <<"F", "U", "L", "L">>) THEN Some(Full)
    ELSE IF contains(comment, TPL \o <<"S", "I", "M", "P", "L", "E">>) THEN Some(Simple)
    ELSE LET custom == strip_prefix(comment, TPL)
         IN  IF IsSome(custom) THEN Some(Custom(trim(Unwrap(custom)))) ELSE None

\* the marker loop of parse_jsonc_templates over the lines ls
RECURSIVE PushMarkers(_, _)
PushMarkers(template_types_in_order, ls) ==
    IF ls = <<>> THEN template_types_in_order
    ELSE LET trimmed == trim(Head(ls))
             tpl_type == IF starts_with(trimmed, <<"/", "/">>) THEN from_comment(trimmed) ELSE None
         IN  PushMarkers(IF IsSome(tpl_type)
                         THEN Append(template_types_in_order, Unwrap(tpl_type))
                         ELSE template_types_in_order,
                         Tail(ls))

\* templates.rs: parse_jsonc_templates, "Extract template markers"
extract_markers(content) == PushMarkers(<<>>, lines(content))


----------------------------------------------------------------------------
(* templates.rs: parse_jsonc_templates, assigning the template types *)

\* a serde_json object
JObject(members) == [kind |-> "object", members |-> members]

\* a serde_json number
JNumber(n) == [kind |-> "number", value |-> n]

TemplateConfig(t, c) == [template_type |-> t, config |-> c]

\* usize::to_string
RECURSIVE to_string(_)
to_string(i) ==
    LET digit(d) == <<"0", "1", "2", "3", "4", "5", "6", "7", "8", "9">>[d + 1]
    IN  IF i < 10 THEN <<digit(i)>> ELSE to_string(i \div 10) \o <<digit(i % 10)>>

\* format!("template_{}", i)
format_template(i) == <<"t", "e", "m", "p", "l", "a", "t", "e", "_">> \o to_string(i)

\* `for (i, config) in json_array.into_iter().enumerate()`, i counted from 0
RECURSIVE AssignTypes(_, _, _, _)
AssignTypes(templates, json_array, i, template_types_in_order) ==
    IF i >= Len(json_array) THEN templates
    ELSE LET template_type ==
                 IF i < Len(template_types_in_order) THEN template_types_in_order[i + 1]
                 ELSE CASE i = 0 -> Full
                        [] i = 1 -> Simple
                        [] OTHER -> Custom(format_template(i))
         IN  AssignTypes(Append(templates, TemplateConfig(template_type, json_array[i + 1])),
                         json_array, i + 1, template_types_in_order)

\* a mutant that pairs by position alone and ignores the markers
assign_template_types_MarkersIgnored(json_array, template_types_in_order) ==
    LET templates == AssignTypes(<<>>, json_array, 0, <<>>)
    IN  IF templates = <<>> THEN Err("No valid templates were found in the file")
        ELSE Ok(templates)

\* templates.rs: parse_jsonc_templates, "Assign template types", for the
\* parsed array and the collected markers
assign_template_types(json_array, template_types_in_order) ==
    LET templates == AssignTypes(<<>>, json_array, 0, template_types_in_order)
    IN  IF templates = <<>> THEN Err("No valid templates were found in the file")
        ELSE Ok(templates)


----------------------------------------------------------------------------
(* main.rs: the interactive configuration *)

\* main.rs: configure_single_monitor, for the number the user typed
\* (0 stands for every input that is no number)
configure_single_monitor(connected, cfg, choice) ==
    IF Len(connected) = 1
    THEN Display(connected[1], <<connected[1]>>, "single")
    ELSE IF choice > 0 /\ choice <= Len(connected)
         THEN Display(connected[choice], <<connected[choice]>>, "single")
         ELSE cfg

\* the selection loop of configure_multiple_monitors
RECURSIVE SelectLoop(_, _, _)
SelectLoop(selected, connected, nums) ==
    IF nums = <<>> THEN selected
    ELSE LET idx == Head(nums)
             next == IF idx > 0 /\ idx <= Len(connected) /\ connected[idx] \notin Range(selected)
                     THEN Append(selected, connected[idx])
                     ELSE selected
         IN  SelectLoop(next, connected, Tail(nums))

\* a mutant that keeps only the monitors of the selection
configure_multiple_monitors_SelectionOnly(connected, cfg, choice, selection) ==
    LET preferred_idx == IF choice > 0 /\ choice <= Len(connected) THEN choice ELSE 1
    IN  Display(connected[preferred_idx],
                IF ~IsSome(selection) THEN connected
                ELSE SelectLoop(<<>>, connected, Unwrap(selection)),
                "multiple")

\* main.rs: configure_multiple_monitors; selection is None for ENTER, else
\* the numbers typed (0 stands for every field that is no number)
configure_multiple_monitors(connected, cfg, choice, selection) ==
    LET preferred_idx == IF choice > 0 /\ choice <= Len(connected) THEN choice ELSE 1
        preferred == connected[preferred_idx]
    IN  Display(preferred,
                IF ~IsSome(selection) THEN connected
                ELSE SelectLoop(<<preferred>>, connected, Unwrap(selection)),
                "multiple")

----------------------------------------------------------------------------
(* SpecFn: the pure functions applied to bounded inputs *)

Hashes == {calculate_template_hash(c) : c \in TemplateContents}

MonLists == SeqsUpTo(MonitorNames, MaxMonLen)

RegenArgs ==
    [fn : {"should_regenerate"},
     cache : {None} \cup {Some(CacheEntry(h, ms, p)) : h \in Hashes, ms \in MonLists, p \in {"", "eDP-1"}},
     template_hash : Hashes,
     monitors : MonLists,
     preferred_monitor : {"", "eDP-1"},
     generated_files_exist : BOOLEAN]

AssignArgs ==
    [fn : {"determine_config_assignments"},
     mode : {"single", "multiple"},
     preferred_monitor : MonitorNames \cup {""},
     connected : SeqsUpTo(MonitorNames, MaxConnLen)]

\* Lines of window-manager output, each with the identifier the extraction
\* rule of each window manager is expected to yield from it (None: the line
\* does not match).
LinePool == <<
    [chars |-> <<"M", "o", "n", "i", "t", "o", "r", " ", "e", "D", "P", "-", "1", " ", "(", "I", "D", " ", "0", ")", ":">>,
     Hyprland |-> Some(<<"e", "D", "P", "-", "1">>), Mango |-> None, Niri |-> None],
    [chars |-> <<"\t", "a", "t", " ", "0", "x", "0">>,
     Hyprland |-> None, Mango |-> None, Niri |-> None],
    [chars |-> <<"M", "o", "n", "i", "t", "o", "r", " ", " ", "D", "P", "-", "1">>,
     Hyprland |-> Some(<<"D", "P", "-", "1">>), Mango |-> None, Niri |-> None],
    [chars |-> <<" ", "M", "o", "n", "i", "t", "o", "r", " ", "D", "P", "-", "1">>,
     Hyprland |-> None, Mango |-> None, Niri |-> None],
    [chars |-> <<"M", "o", "n", "i", "t", "o", "r", " ">>,
     Hyprland |-> None, Mango |-> None, Niri |-> None],
    [chars |-> <<"M", "o", "n", "i", "t", "o", "r", "X", " ", "D", "P", "-", "1">>,
     Hyprland |-> None, Mango |-> None, Niri |-> None],
    [chars |-> <<"M", "o", "n", "i", "t", "o", "r", " ", "s", "e", "l", "m", "o", "n", " ", "1">>,
     Hyprland |-> Some(<<"s", "e", "l", "m", "o", "n">>), Mango |-> Some(<<"M", "o", "n", "i", "t", "o", "r">>), Niri |-> None],
    [chars |-> <<"e", "D", "P", "-", "1", " ", "s", "e", "l", "m", "o", "n", " ", "1">>,
     Hyprland |-> None, Mango |-> Some(<<"e", "D", "P", "-", "1">>), Niri |-> None],
    [chars |-> <<" ", "\t", "D", "P", "-", "1", " ", "s", "e", "l", "m", "o", "n", " ", "0">>,
     Hyprland |-> None, Mango |-> Some(<<"D", "P", "-", "1">>), Niri |-> None],
    [chars |-> <<"e", "D", "P", "-", "1", " ", "t", "a", "g", " ", "1">>,
     Hyprland |-> None, Mango |-> None, Niri |-> None],
    [chars |-> <<"s", "e", "l", "m", "o", "n">>,
     Hyprland |-> None, Mango |-> Some(<<"s", "e", "l", "m", "o", "n">>), Niri |-> None],
    [chars |-> <<"O", "u", "t", "p", "u", "t", " ", "\"", "D", "e", "l", "l", " ", "U", "\"", " ", "(", "D", "P", "-", "1", ")">>,
     Hyprland |-> None, Mango |-> None, Niri |-> Some(<<"D", "P", "-", "1">>)],
    [chars |-> <<"O", "u", "t", "p", "u", "t", " ", " ", "\"", "\"", " ", "\t", "(", "e", "D", "P", "-", "1", ")", " ", "x">>,
     Hyprland |-> None, Mango |-> None, Niri |-> Some(<<"e", "D", "P", "-", "1">>)],
    [chars |-> <<"O", "u", "t", "p", "u", "t", " ", "\"", "X", "\"", " ", "(", ")">>,
     Hyprland |-> None, Mango |-> None, Niri |-> None],
    [chars |-> <<"O", "u", "t", "p", "u", "t", " ", "\"", "X", "\"", "(", "D", "P", "-", "1", ")">>,
     Hyprland |-> None, Mango |-> None, Niri |-> None],
    [chars |-> <<" ", "O", "u", "t", "p", "u", "t", " ", "\"", "X", "\"", " ", "(", "D", "P", "-", "1", ")">>,
     Hyprland |-> None, Mango |-> None, Niri |-> None],
    [chars |-> <<"O", "u", "t", "p", "u", "t", " ", "\"", "X", "\"", " ", "(", "a", " ", "b", ")", " ", "(", "c", ")">>,
     Hyprland |-> None, Mango |-> None, Niri |-> Some(<<"a", " ", "b">>)],
    [chars |-> <<>>,
     Hyprland |-> None, Mango |-> None, Niri |-> None]
>>

ParseArgs ==
    [fn : {"parse_monitors"},
     wm : WindowManagers,
     picks : SeqsUpTo(1..Len(LinePool), MaxLines),
     crlf : BOOLEAN,
     trailing : BOOLEAN]

DetectArgs == [fn : {"detect_window_manager"}, env : EnvSignals]

ConnLists == SeqsUpTo(MonitorNames, MaxConnLen)

ListsMatchArgs == [fn : {"lists_match"}, list1 : ConnLists, list2 : ConnLists]

FindMatchesArgs == [fn : {"find_matches"}, configured : ConnLists, connected : ConnLists]

\* the characters the comment scanner tells apart, and an ordinary one
TemplateChars == {"/", "\"", "\\", "\n", "a"}

\* Lines of a template file, each with the marker the marker grammar gives
\* it (None: the line carries no marker).
MarkerPool == <<
    [chars |-> <<"/", "/", " ", "T", "P", "L", ":", "F", "U", "L", "L">>,
     marker |-> Some(Full)],
    [chars |-> <<" ", " ", "/", "/", " ", "T", "P", "L", ":", "S", "I", "M", "P", "L", "E", " ">>,
     marker |-> Some(Simple)],
    [chars |-> <<"/", "/", " ", "T", "P", "L", ":", "C", "L", "O", "C", "K">>,
     marker |-> Some(Custom(<<"C", "L", "O", "C", "K">>))],
    [chars |-> <<"/", "/", "T", "P", "L", ":", "t", "o", "p">>,
     marker |-> Some(Custom(<<"t", "o", "p">>))],
    [chars |-> <<"/", "/", " ", "a", " ", "n", "o", "t", "e">>,
     marker |-> None],
    [chars |-> <<"T", "P", "L", ":", "F", "U", "L", "L">>,
     marker |-> None],
    [chars |-> <<"{", "}", ",", " ", "/", "/", " ", "T", "P", "L", ":", "S", "I", "M", "P", "L", "E">>,
     marker |-> None],
    [chars |-> <<"[">>,
     marker |-> None],
    [chars |-> <<>>,
     marker |-> None]
>>

MarkerArgs ==
    [fn : {"extract_markers"},
     picks : SeqsUpTo(1..Len(MarkerPool), MaxLines),
     crlf : BOOLEAN]

\* the text of the picked template lines, each ended by the line ending
RECURSIVE TemplateText(_, _)
TemplateText(picks, eol) ==
    IF picks = <<>> THEN <<>>
    ELSE MarkerPool[Head(picks)].chars \o eol \o TemplateText(Tail(picks), eol)

\* documents a template file may hold
Documents == {JObject([layer |-> "top"]), JNumber(7)}

\* markers a template file may hold
Markers == {Full, Simple, Custom(<<"c">>)}

AssignTypesArgs ==
    [fn : {"assign_template_types"},
     json_array : SeqsUpTo(Documents, MaxDocs),
     template_types_in_order : SeqsUpTo(Markers, MaxDocs)]

\* the detected lists of a configuration session: no monitor twice
DetectedLists ==
    {c \in SeqsUpTo(MonitorNames, MaxConnLen) :
        c # <<>> /\ \A i, j \in 1..Len(c) : c[i] = c[j] => i = j}

\* the numbers typed at a prompt: 0 for anything that is no number, and one
\* beyond the longest list
TypedNumbers == 0..(MaxConnLen + 1)

\* option 1 (single) or 2 (multiple), the configuration loaded, the number
\* typed for the monitor, and the selection typed: ENTER, or one or two fields
ConfigureArgs ==
    [fn : {"configure"},
     option : {"1", "2"},
     connected : DetectedLists,
     cfg : {DefaultConfig,
            Display("DP-1", <<"DP-1">>, "single"),
            Display("eDP-1", <<"eDP-1", "DP-1">>, "multiple")},
     choice : TypedNumbers,
     selection : {None} \cup {Some(ns) : ns \in SeqsUpTo(TypedNumbers, 2) \ {<<>>}}]

ClearArgs == [fn : {"clear_comments"}, content : SeqsUpTo(TemplateChars, MaxTplLen)]

\* the text of the picked lines, joined by the line ending
RECURSIVE JoinLines(_, _)
JoinLines(picks, eol) ==
    IF picks = <<>> THEN <<>>
    ELSE LinePool[Head(picks)].chars
         \o (IF Len(picks) > 1 THEN eol \o JoinLines(Tail(picks), eol) ELSE <<>>)

OutputText(a) ==
    LET eol == IF a.crlf THEN <<"\r", "\n">> ELSE <<"\n">>
    IN  JoinLines(a.picks, eol) \o (IF a.trailing /\ a.picks # <<>> THEN eol ELSE <<>>)

Pending == [done |-> FALSE, val |-> <<>>]
Done(v) == [done |-> TRUE, val |-> v]

\* the state of the files while only functions are applied
SysIdle ==
    /\ env = [hypr_sig |-> FALSE, mango |-> FALSE, niri |-> FALSE]
    /\ config_file = None
    /\ cache_file = None
    /\ template = 0
    /\ generated = <<>>
    /\ bars = {}
    /\ run = <<>>
    /\ prompt = <<>>
    /\ spawn = <<>>
    /\ ops = 0

InitFn ==
    /\ \/ arg \in RegenArgs
       \/ arg \in AssignArgs
       \/ arg \in ParseArgs
       \/ arg \in DetectArgs
       \/ arg \in ListsMatchArgs
       \/ arg \in FindMatchesArgs
       \/ arg \in ClearArgs
       \/ arg \in MarkerArgs
       \/ arg \in AssignTypesArgs
       \/ arg \in ConfigureArgs
    /\ res = Pending
    /\ SysIdle

ApplyShouldRegenerate ==
    /\ arg.fn = "should_regenerate" /\ ~res.done
    /\ res' = Done(should_regenerate(arg.cache, arg.template_hash, arg.monitors,
                                     arg.preferred_monitor, arg.generated_files_exist))
    /\ UNCHANGED <<arg, sysVars>>

ApplyAssign ==
    /\ arg.fn = "determine_config_assignments" /\ ~res.done
    /\ res' = Done(determine_config_assignments(
                       Display(arg.preferred_monitor, <<>>, arg.mode), arg.connected))
    /\ UNCHANGED <<arg, sysVars>>

ApplyParse ==
    /\ arg.fn = "parse_monitors" /\ ~res.done
    /\ res' = Done(parse_monitors(arg.wm, OutputText(arg)))
    /\ UNCHANGED <<arg, sysVars>>

ApplyDetect ==
    /\ arg.fn = "detect_window_manager" /\ ~res.done
    /\ res' = Done(detect_window_manager(arg.env))
    /\ UNCHANGED <<arg, sysVars>>

ApplyListsMatch ==
    /\ arg.fn = "lists_match" /\ ~res.done
    /\ res' = Done(lists_match(arg.list1, arg.list2))
    /\ UNCHANGED <<arg, sysVars>>

ApplyFindMatches ==
    /\ arg.fn = "find_matches" /\ ~res.done
    /\ \E matches \in find_matches(arg.configured, arg.connected) : res' = Done(matches)
    /\ UNCHANGED <<arg, sysVars>>

ApplyClearComments ==
    /\ arg.fn = "clear_comments" /\ ~res.done
    /\ res' = Done(clear_comments(arg.content))
    /\ UNCHANGED <<arg, sysVars>>

ApplyExtractMarkers ==
    /\ arg.fn = "extract_markers" /\ ~res.done
    /\ res' = Done(extract_markers(TemplateText(arg.picks,
                        IF arg.crlf THEN <<"\r", "\n">> ELSE <<"\n">>)))
    /\ UNCHANGED <<arg, sysVars>>

ApplyAssignTypes ==
    /\ arg.fn = "assign_template_types" /\ ~res.done
    /\ res' = Done(assign_template_types(arg.json_array, arg.template_types_in_order))
    /\ UNCHANGED <<arg, sysVars>>

\* main.rs: interactive_config, the match on the option typed
ApplyConfigure ==
    /\ arg.fn = "configure" /\ ~res.done
    /\ res' = Done(IF arg.option = "1"
                   THEN configure_single_monitor(arg.connected, arg.cfg, arg.choice)
                   ELSE configure_multiple_monitors(arg.connected, arg.cfg, arg.choice, arg.selection))
    /\ UNCHANGED <<arg, sysVars>>

NextFn ==
    \/ ApplyConfigure
    \/ ApplyAssignTypes
    \/ ApplyExtractMarkers
    \/ ApplyClearComments
    \/ ApplyShouldRegenerate
    \/ ApplyAssign
    \/ ApplyParse
    \/ ApplyDetect
    \/ ApplyListsMatch
    \/ ApplyFindMatches

SpecFn == InitFn /\ [][NextFn]_vars

Applied(f) == arg.fn = f /\ res.done

----------------------------------------------------------------------------
(* Claims about the pure functions (SpecFn) *)

\* C1: should_regenerate returns true whenever the cache is None, or
\* generated_files_exist is false, or the template hash differs, or the
\* preferred monitor differs, or the set of cache.monitors differs from the
\* set of target monitors -- whatever the other arguments are.
C1_RegenerateOnAnyTrigger ==
    Applied("should_regenerate") =>
        ((\/ ~IsSome(arg.cache)
          \/ ~arg.generated_files_exist
          \/ Unwrap(arg.cache).template_hash # arg.template_hash
          \/ Unwrap(arg.cache).preferred_monitor # arg.preferred_monitor
          \/ Range(Unwrap(arg.cache).monitors) # Range(arg.monitors))
         => res.val = TRUE)

\* C1 witness: the last trigger alone (the monitor sets differ, everything
\* else matches and the files exist) made the decision true.
C1_Witness ==
    /\ Applied("should_regenerate") /\ res.val = TRUE
    /\ IsSome(arg.cache) /\ arg.generated_files_exist
    /\ Unwrap(arg.cache).template_hash = arg.template_hash
    /\ Unwrap(arg.cache).preferred_monitor = arg.preferred_monitor
    /\ Range(Unwrap(arg.cache).monitors) # Range(arg.monitors)
    /\ Len(arg.monitors) = 2

Count(s, x) == Cardinality({i \in 1..Len(s) : s[i] = x})

\* b is a reordering of a: the same elements with the same multiplicities
IsPermutation(a, b) == Len(a) = Len(b) /\ \A x \in Range(a) \cup Range(b) : Count(a, x) = Count(b, x)

RegenInputsMatch ==
    /\ Applied("should_regenerate")
    /\ IsSome(arg.cache) /\ arg.generated_files_exist
    /\ Unwrap(arg.cache).template_hash = arg.template_hash
    /\ Unwrap(arg.cache).preferred_monitor = arg.preferred_monitor

\* C2 as stated: with the files present and hash and preferred monitor equal,
\* should_regenerate is false whenever cache.monitors and the target monitors
\* are equal as sets, duplicates permitted.
C2_Original_SetEqualGivesFalse ==
    (RegenInputsMatch /\ Range(Unwrap(arg.cache).monitors) = Range(arg.monitors))
        => res.val = FALSE

\* C2 amended: with the files present and hash and preferred monitor equal,
\* should_regenerate is false whenever cache.monitors is a reordering of the
\* target monitors (same elements, same multiplicities), in any order.
C2_PermutationGivesFalse ==
    (RegenInputsMatch /\ IsPermutation(Unwrap(arg.cache).monitors, arg.monitors))
        => res.val = FALSE

\* C2 witness: the decision is false for two lists in different physical order.
C2_Witness ==
    /\ RegenInputsMatch /\ res.val = FALSE
    /\ Unwrap(arg.cache).monitors # arg.monitors
    /\ IsPermutation(Unwrap(arg.cache).monitors, arg.monitors)

\* C5: for every mode, preferred value and non-empty connected list the
\* assignment map has exactly the connected monitors as keys; a list of one
\* monitor maps it to Full; a longer list maps each monitor to Full if it
\* equals preferred_monitor and to Simple otherwise.
C5_AssignmentMatchesReference ==
    (Applied("determine_config_assignments") /\ arg.connected # <<>>) =>
        /\ DOMAIN res.val = Range(arg.connected)
        /\ Len(arg.connected) = 1 => res.val[arg.connected[1]] = Full
        /\ Len(arg.connected) > 1 =>
               \A m \in Range(arg.connected) :
                   res.val[m] = IF m = arg.preferred_monitor THEN Full ELSE Simple

\* C5 witness: a single connected monitor that is not the preferred one got Full.
C5_Witness ==
    /\ Applied("determine_config_assignments")
    /\ Len(arg.connected) = 1
    /\ arg.preferred_monitor \notin {"", arg.connected[1]}
    /\ arg.mode = "multiple"
    /\ res.val[arg.connected[1]] = Full

\* the identifiers the extraction rule expects from the picked lines, in order
RECURSIVE ExpectedMonitors(_, _)
ExpectedMonitors(wm, picks) ==
    IF picks = <<>> THEN <<>>
    ELSE LinePool[Head(picks)][wm] \o ExpectedMonitors(wm, Tail(picks))

\* C8: a successful parse_monitors returns exactly the identifiers of the
\* matching lines, in input order, one per matching line, duplicates kept.
C8_ParseReturnsMatchesInOrder ==
    (Applied("parse_monitors") /\ res.val.ok) =>
        res.val.val = ExpectedMonitors(arg.wm, arg.picks)

\* C8 witness: a successful parse that returned the same identifier twice.
C8_Witness ==
    /\ Applied("parse_monitors") /\ res.val.ok
    /\ Len(arg.picks) = 2
    /\ Len(res.val.val) = 2 /\ res.val.val[1] = res.val.val[2]

\* C9: parse_monitors fails with "No monitors were detected" exactly when no
\* line of the input matches, and a successful result is never empty.
C9_ParseFailsIffNoMatch ==
    Applied("parse_monitors") =>
        /\ res.val.ok <=> (\E i \in 1..Len(arg.picks) : IsSome(LinePool[arg.picks[i]][arg.wm]))
        /\ ~res.val.ok => res.val.err = "No monitors were detected"
        /\ res.val.ok => Len(res.val.val) >= 1

\* C9 witness: a non-empty input without a matching line was rejected.
C9_Witness ==
    /\ Applied("parse_monitors") /\ ~res.val.ok
    /\ Len(arg.picks) = 2
    /\ LinePool[arg.picks[1]].chars # <<>>

\* C10: the environment variable yields Hyprland whatever processes run;
\* otherwise a running mango yields Mango even if niri runs; otherwise a
\* running niri yields Niri; with no signal detection fails.
C10_DetectionPriority ==
    Applied("detect_window_manager") =>
        /\ arg.env.hypr_sig => (res.val.ok /\ res.val.val = "Hyprland")
        /\ (~arg.env.hypr_sig /\ arg.env.mango) => (res.val.ok /\ res.val.val = "Mango")
        /\ (~arg.env.hypr_sig /\ ~arg.env.mango /\ arg.env.niri) => (res.val.ok /\ res.val.val = "Niri")
        /\ (~arg.env.hypr_sig /\ ~arg.env.mango /\ ~arg.env.niri) =>
               (~res.val.ok /\ res.val.err = "No compatible window manager was detected (Hyprland, Mango, Niri)")

\* C10 witness: all three signals present, and Hyprland won.
C10_Witness ==
    /\ Applied("detect_window_manager")
    /\ arg.env.hypr_sig /\ arg.env.mango /\ arg.env.niri
    /\ res.val.ok /\ res.val.val = "Hyprland"


\* the lists have the same elements: each element of one occurs in the other
SameElements(a, b) == \A x \in MonitorNames : (Count(a, x) > 0) <=> (Count(b, x) > 0)

\* C11: lists_match(a, b) is true exactly when the two lists have the same
\* length and the same elements as sets, duplicates permitted; the answer is
\* the same with the arguments swapped and with either list sorted.
C11_ListsMatchIsLenAndSetEquality ==
    Applied("lists_match") =>
        /\ res.val = (Len(arg.list1) = Len(arg.list2) /\ SameElements(arg.list1, arg.list2))
        /\ res.val = lists_match(arg.list2, arg.list1)
        /\ res.val = lists_match(sort(arg.list1), arg.list2)
        /\ res.val = lists_match(arg.list1, sort(arg.list2))

\* C11 witness: two lists of three entries with the same elements in
\* different multiplicities and orders are reported as matching.
C11_Witness ==
    /\ Applied("lists_match") /\ res.val
    /\ Len(arg.list1) = 3 /\ ~IsPermutation(arg.list1, arg.list2)

\* C12: each result of find_matches lists exactly the common elements of the
\* two inputs, each once; swapping the inputs or sorting either one yields
\* results with the same members.
C12_FindMatchesIsIntersection ==
    Applied("find_matches") =>
        LET members == {x \in MonitorNames :
                           Count(arg.configured, x) > 0 /\ Count(arg.connected, x) > 0}
        IN  /\ Range(res.val) = members
            /\ \A x \in members : Count(res.val, x) = 1
            /\ \A r \in find_matches(arg.connected, arg.configured) : Range(r) = members
            /\ \A r \in find_matches(sort(arg.configured), arg.connected) : Range(r) = members
            /\ \A r \in find_matches(arg.configured, sort(arg.connected)) : Range(r) = members

\* C12 witness: a configured list that repeats a monitor, two common
\* monitors, each listed once in the result.
C12_Witness ==
    /\ Applied("find_matches") /\ Len(res.val) = 2
    /\ Len(arg.configured) = 3 /\ Cardinality(Range(arg.configured)) = 2
    /\ arg.configured # arg.connected


\* The reference scanner: one pass with a mode.  "out": outside strings and
\* comments; "str": inside a string literal; "esc": after a backslash inside
\* a string literal; "mark": at the second '/' of a comment marker; "com":
\* inside a line comment.
RECURSIVE ReferenceScan(_, _, _)
ReferenceScan(chars, i, mode) ==
    IF i > Len(chars) THEN <<>>
    ELSE LET c == chars[i]
             keep == <<c>> \o ReferenceScan(chars, i + 1,
                         CASE mode = "out" /\ c = "\"" -> "str"
                           [] mode = "str" /\ c = "\\" -> "esc"
                           [] mode = "str" /\ c = "\"" -> "out"
                           [] mode = "esc" -> "str"
                           [] mode = "com" -> "out"
                           [] OTHER -> mode)
         IN  CASE mode = "out" /\ c = "/" /\ i < Len(chars) /\ chars[i + 1] = "/" ->
                    ReferenceScan(chars, i + 1, "mark")
               [] mode = "mark" -> ReferenceScan(chars, i + 1, "com")
               [] mode = "com" /\ c # "\n" -> ReferenceScan(chars, i + 1, "com")
               [] OTHER -> keep

\* C13: clearing the comments equals the reference scanner: string literals
\* (escapes honoured) are copied verbatim with any '//' inside them, each
\* '//' outside a string removes the text up to the next newline and keeps
\* that newline, every other character is copied; so the output has as many
\* newlines as the input, and an input without '//' is returned unchanged.
C13_ClearCommentsMatchesReference ==
    Applied("clear_comments") =>
        /\ res.val = ReferenceScan(arg.content, 1, "out")
        /\ Count(res.val, "\n") = Count(arg.content, "\n")
        /\ (\A i \in 1..(Len(arg.content) - 1) :
                ~(arg.content[i] = "/" /\ arg.content[i + 1] = "/")) => res.val = arg.content

\* C13 witness: a string literal holding '//' is kept and the comment after
\* it is removed.
C13_Witness ==
    /\ Applied("clear_comments")
    /\ arg.content = <<"\"", "/", "/", "\"", "/", "/">>
    /\ res.val = <<"\"", "/", "/", "\"">>


\* the markers the grammar gives the picked lines, in file order
RECURSIVE ExpectedMarkers(_)
ExpectedMarkers(picks) ==
    IF picks = <<>> THEN <<>>
    ELSE MarkerPool[Head(picks)].marker \o ExpectedMarkers(Tail(picks))

\* C14: the markers collected from a template are, in file order, the
\* markers of its comment lines: Full for TPL:FULL, Simple for TPL:SIMPLE,
\* Custom(name) for TPL:<name> with any other suffix, and nothing for a
\* comment line without a TPL: marker or a line that is no comment.
C14_MarkersFollowGrammar ==
    Applied("extract_markers") => res.val = ExpectedMarkers(arg.picks)

\* what holds of the code: the same with the Custom markers left out
C14_CustomMarkersAreDropped ==
    Applied("extract_markers") =>
        res.val = SelectSeq(ExpectedMarkers(arg.picks), LAMBDA t : t.tag # "Custom")


\* the positional fallback of the document at index i (counted from 0,
\* below 10)
PositionalFallback(i) ==
    CASE i = 0 -> Full
      [] i = 1 -> Simple
      [] OTHER -> Custom(<<"t", "e", "m", "p", "l", "a", "t", "e", "_",
                           <<"2", "3", "4", "5", "6", "7", "8", "9">>[i - 1]>>)

\* C15: loading pairs document i with the i-th collected marker when there
\* is one and with its positional fallback otherwise; the result has one
\* pair per document, in document order, and markers beyond the documents
\* are ignored.  Loading a file without documents fails.
C15_PairingIsByIndex ==
    Applied("assign_template_types") =>
        LET docs == arg.json_array
            markers == arg.template_types_in_order
        IN  /\ res.val.ok = (docs # <<>>)
            /\ res.val.ok =>
                  /\ Len(res.val.val) = Len(docs)
                  /\ \A k \in 1..Len(docs) :
                        /\ res.val.val[k].config = docs[k]
                        /\ res.val.val[k].template_type =
                               IF k <= Len(markers) THEN markers[k] ELSE PositionalFallback(k - 1)

\* C15 witness: three documents and one marker: the first document takes
\* the marker, the others their positional fallbacks.
C15_Witness ==
    /\ Applied("assign_template_types") /\ res.val.ok
    /\ Len(arg.json_array) = 3 /\ arg.template_types_in_order = <<Simple>>
    /\ res.val.val[1].template_type = Simple
    /\ res.val.val[2].template_type = Simple
    /\ res.val.val[3].template_type = Custom(<<"t", "e", "m", "p", "l", "a", "t", "e", "_", "2">>)


----------------------------------------------------------------------------
(* Spec: the program over its persisted files *)

\* the monitors the session's window manager may report
SysMonitors == {"DP-1", "eDP-1"}

\* the signals of the sessions the runs happen in: no supported window
\* manager, and a session with both mango and niri running
SessionSignals ==
    {[hypr_sig |-> FALSE, mango |-> FALSE, niri |-> FALSE],
     [hypr_sig |-> FALSE, mango |-> TRUE, niri |-> TRUE]}

\* a window manager lists each of its outputs once
NoDuplicates(l) == \A i, j \in 1..Len(l) : l[i] = l[j] => i = j

\* the results get_connected_monitors can hand to a run
Detections ==
    {Err("No monitors were detected")}
        \cup {Ok(l) : l \in {c \in SeqsUpTo(SysMonitors, MaxConnected) : c # <<>> /\ NoDuplicates(c)}}

\* config.rs: load_config -- a missing file is created with the defaults first
load_config(file) == IF IsSome(file) THEN Unwrap(file) ELSE DefaultConfig

\* cache.rs: load_cache
load_cache(file) == file

\* the template files of the runs: what the marker scan and the JSON parse
\* give for each.  1: two marked objects, the first with an "output" of its
\* own; 2: one unmarked document that is a number, not an object
TemplateFile(content) ==
    CASE content = 1 ->
           [markers |-> <<Full, Simple>>,
            json_array |-> <<JObject([layer |-> "top", output |-> "none"]),
                             JObject([layer |-> "bottom"])>>]
      [] content = 2 ->
           [markers |-> <<>>, json_array |-> <<JNumber(7)>>]

\* templates.rs: load_templates, by the content of the template file
load_templates(content) ==
    assign_template_types(TemplateFile(content).json_array, TemplateFile(content).markers).val

\* templates.iter().find(|t| &t.template_type == template_type)
find_template(templates, template_type) ==
    LET hits == {i \in 1..Len(templates) : templates[i].template_type = template_type}
    IN  IF hits = {} THEN None
        ELSE Some(templates[CHOOSE i \in hits : \A j \in hits : i <= j])

\* config.as_object_mut() and obj.insert("output", monitor)
with_output(config, monitor) ==
    IF config.kind = "object"
    THEN [config EXCEPT !.members = Insert(config.members, "output", monitor)]
    ELSE config

EmptyFiles == [p \in {} |-> JObject(EmptyMap)]

\* fs::write of every entry of W (a set of [path, content]) over files
WriteAll(files, W) ==
    [p \in DOMAIN files \cup {w.path : w \in W} |->
        IF \E w \in W : w.path = p THEN (CHOOSE w \in W : w.path = p).content ELSE files[p]]

\* a mutant that requires both variants of every monitor to exist
check_generated_files_exist_BothTypes(monitors, wm, files) ==
    \A i \in 1..Len(monitors) :
        /\ get_generated_config_path(wm, monitors[i], Full) \in DOMAIN files
        /\ get_generated_config_path(wm, monitors[i], Simple) \in DOMAIN files

\* cache.rs: check_generated_files_exist
check_generated_files_exist(monitors, wm, files) ==
    \A i \in 1..Len(monitors) :
        LET full_path == get_generated_config_path(wm, monitors[i], Full)
            simple_path == get_generated_config_path(wm, monitors[i], Simple)
        IN  ~(full_path \notin DOMAIN files /\ simple_path \notin DOMAIN files)

\* a mutant that skips the monitors whose variant has no template
generate_configs_SkipMissing(cfg, connected, wm, content, files) ==
    LET templates == load_templates(content)
        config_assignments == determine_config_assignments(cfg, connected)
        found == {m \in DOMAIN config_assignments : IsSome(find_template(templates, config_assignments[m]))}
    IN  {[ok |-> TRUE,
          files |-> WriteAll(files,
                       {[path |-> get_generated_config_path(wm, m, config_assignments[m]),
                         content |-> with_output(Unwrap(find_template(templates, config_assignments[m])).config, m)]
                            : m \in found})]}

\* templates.rs: generate_configs.  The loop walks a HashMap, whose order is
\* unspecified: when some assigned variant has no template, any set of the
\* other entries may already have been written when the loop fails.
generate_configs(cfg, connected, wm, content, files) ==
    LET templates == load_templates(content)
        config_assignments == determine_config_assignments(cfg, connected)
        entry(monitor) ==
            [path |-> get_generated_config_path(wm, monitor, config_assignments[monitor]),
             content |-> with_output(Unwrap(find_template(templates, config_assignments[monitor])).config,
                                     monitor)]
        found == {m \in DOMAIN config_assignments : IsSome(find_template(templates, config_assignments[m]))}
    IN  IF found = DOMAIN config_assignments
        THEN {[ok |-> TRUE, files |-> WriteAll(files, {entry(m) : m \in found})]}
        ELSE {[ok |-> FALSE, files |-> WriteAll(files, {entry(m) : m \in W})] : W \in SUBSET found}

\* templates.rs: launch_waybar_instances -- one spawn per entry of the map
launch_waybar_instances(cfg, connected, wm) ==
    LET config_assignments == determine_config_assignments(cfg, connected)
    IN  {[monitor |-> m, config_path |-> get_generated_config_path(wm, m, config_assignments[m])]
            : m \in DOMAIN config_assignments}

\* str::to_lowercase, on the letters of the answers
to_lowercase(str) ==
    [i \in 1..Len(str) |->
        CASE str[i] = "Y" -> "y"
          [] str[i] = "E" -> "e"
          [] str[i] = "S" -> "s"
          [] str[i] = "N" -> "n"
          [] OTHER -> str[i]]

\* a mutant that takes the empty line for a yes, as the prompt of check does
ask_update_config_match_EmptyIsYes(received) ==
    /\ received.ok
    /\ to_lowercase(trim(received.val)) \in {<<>>, <<"y">>, <<"y", "e", "s">>}

\* main.rs: ask_update_config, the match on rx.recv_timeout(4 s):
\* Ok(input) or Err(timeout)
ask_update_config_match(received) ==
    IF received.ok
    THEN LET input == to_lowercase(trim(received.val))
         IN  input = <<"y">> \/ input = <<"y", "e", "s">>
    ELSE FALSE

\* main.rs: ask_update_config_sync, for the line read
ask_update_config_sync(line) ==
    LET input == to_lowercase(trim(line))
    IN  input = <<>> \/ input = <<"y">> \/ input = <<"y", "e", "s">>

\* what rx.recv_timeout hands a launch run: the timeout, or the line typed
LaunchAnswers == {Err("timeout"), Ok(<<"y", "\n">>), Ok(<<"n", "\n">>)}

\* what the user types at the prompt of check
CheckAnswers == {<<"\n">>, <<"n", "\n">>}

\* a mutant that synchronizes whenever the lists differ, unasked
launch_update_config_Unasked(cfg, connected, needs_update, force_update, answer) ==
    IF needs_update THEN [cfg EXCEPT !.available_monitors = connected] ELSE cfg

\* main.rs: launch_waybar, step 5: the configuration after the update branch
launch_update_config(cfg, connected, needs_update, force_update, answer) ==
    IF needs_update /\ cfg.mode # "single" /\ (force_update \/ answer)
    THEN [cfg EXCEPT !.available_monitors = connected]
    ELSE cfg

\* main.rs: needs_update of launch_waybar
launch_needs_update(cfg, connected) ==
    IF cfg.mode = "single"
    THEN cfg.preferred_monitor \notin Range(connected)
    ELSE ~lists_match(cfg.available_monitors, connected)

\* a mutant that uses every connected monitor in single mode too
monitors_to_use_NoNarrowing(cfg, connected) == connected

\* main.rs: monitors_to_use of launch_waybar
monitors_to_use(cfg, connected) ==
    IF cfg.mode = "single"
    THEN IF cfg.preferred_monitor \in Range(connected)
         THEN <<cfg.preferred_monitor>>
         ELSE <<connected[1]>>
    ELSE connected

\* one call of the assignment engine, as the run made it
AssignCall(who, cfg, connected) ==
    [by |-> who, connected |-> connected, map |-> determine_config_assignments(cfg, connected)]

NoRun ==
    [kind |-> "none", result |-> "", wm |-> "", connected |-> <<>>, mode |-> "",
     preferred |-> "", template |-> 0, monitors_to_use |-> <<>>, decision |-> "none",
     assign_calls |-> <<>>, spawned |-> {}, files_changed |-> FALSE, repeat |-> FALSE,
     force_update |-> FALSE, asked |-> None, available |-> <<>>, needs_update |-> FALSE]

Op(kind) == [NoRun EXCEPT !.kind = kind]

Init ==
    /\ arg = [fn |-> "none"]
    /\ res = Pending
    /\ env \in SessionSignals
    /\ config_file = None
    /\ cache_file = None
    /\ template = 0
    /\ generated = EmptyFiles
    /\ bars = {}
    /\ run = NoRun
    /\ prompt = <<>>
    /\ spawn = <<>>
    /\ ops = 0


\* the run record of a launch that got as far as loading its configuration
LaunchRun(wm, connected, cfg) ==
    [Op("launch") EXCEPT
        !.wm = wm, !.connected = connected, !.mode = cfg.mode,
        !.preferred = cfg.preferred_monitor, !.template = template,
        !.monitors_to_use = monitors_to_use(cfg, connected),
        !.repeat = /\ run.kind = "launch" /\ run.result = "ok" /\ run.decision = "regenerate"
                   /\ run.wm = wm /\ run.connected = connected /\ run.template = template
                   /\ run.mode = cfg.mode /\ run.preferred = cfg.preferred_monitor]

\* monitor.rs: is_waybar_running, over the set of running bars
is_waybar_running(running) == running # {}

\* a mutant that leaves the running bars running
kill_waybar_KeepsBars(running) == running

\* monitor.rs: kill_waybar -- every waybar process is sent a kill; what is
\* left running
kill_waybar(running) == {b \in running : FALSE}

\* main.rs: launch_waybar, steps 7 and 8: kill the running bars, spawn the new ones
KillAndSpawn(r, cfg, wm) ==
    LET spawned == launch_waybar_instances(cfg, r.monitors_to_use, wm)
    IN  /\ bars' = (IF is_waybar_running(bars) THEN kill_waybar(bars) ELSE bars)
                        \cup {s.config_path : s \in spawned}
        /\ run' = [r EXCEPT !.result = "ok", !.spawned = spawned,
                            !.assign_calls = @ \o <<AssignCall("launch_waybar_instances", cfg, r.monitors_to_use)>>]

\* main.rs: launch_waybar, from the cache decision on
DecideAndLaunch(r, cfg, wm, connected) ==
    LET template_hash == calculate_template_hash(template)
        cache_entry == load_cache(cache_file)
        generated_files_exist == check_generated_files_exist(r.monitors_to_use, wm, generated)
        regenerate == should_regenerate(cache_entry, template_hash, r.monitors_to_use,
                                        cfg.preferred_monitor, generated_files_exist)
    IN  IF regenerate
        THEN \E out \in generate_configs(cfg, connected, wm, template, generated) :
                LET g == [r EXCEPT !.decision = "regenerate",
                                   !.files_changed = out.files # generated,
                                   !.assign_calls = <<AssignCall("generate_configs", cfg, connected)>>]
                IN  /\ generated' = out.files
                    /\ IF out.ok
                       THEN /\ cache_file' = Some(CacheEntry(template_hash, r.monitors_to_use,
                                                             cfg.preferred_monitor))
                            /\ KillAndSpawn(g, cfg, wm)
                       ELSE /\ run' = [g EXCEPT !.result = "No template was found"]
                            /\ UNCHANGED <<cache_file, bars>>
        ELSE /\ KillAndSpawn([r EXCEPT !.decision = "skip"], cfg, wm)
             /\ UNCHANGED <<cache_file, generated>>

\* main.rs: launch_waybar, from loading the configuration on.  The prompt
\* is reached only when the lists differ, in multiple mode, without --force.
LoadAndLaunch(wm, connected, force_update) ==
    LET loaded == load_config(config_file)
        needs_update == launch_needs_update(loaded, connected)
        asks == needs_update /\ loaded.mode # "single" /\ ~force_update
    IN  \E received \in (IF asks THEN LaunchAnswers ELSE {Err("not asked")}) :
           LET answer == asks /\ ask_update_config_match(received)
               cfg == launch_update_config(loaded, connected, needs_update, force_update, answer)
               r == [LaunchRun(wm, connected, cfg) EXCEPT
                        !.force_update = force_update,
                        !.asked = IF asks THEN Some(received) ELSE None,
                        !.available = loaded.available_monitors,
                        !.needs_update = needs_update]
           IN  /\ config_file' = Some(cfg)
               /\ IF template = 0
                  THEN /\ run' = [r EXCEPT !.result = "Error reading template file"]
                       /\ UNCHANGED <<cache_file, generated, bars>>
                  ELSE DecideAndLaunch(r, cfg, wm, connected)

\* main.rs: launch_waybar
Launch ==
    /\ ops < MaxOps /\ ops' = ops + 1
    /\ \E force_update \in BOOLEAN, detected \in Detections :
          LET wm_r == detect_window_manager(env)
          IN  IF ~wm_r.ok
              THEN /\ run' = [Op("launch") EXCEPT !.result = wm_r.err]
                   /\ UNCHANGED <<config_file, cache_file, generated, bars>>
              ELSE IF ~detected.ok
                   THEN /\ run' = [Op("launch") EXCEPT !.result = detected.err, !.wm = wm_r.val]
                        /\ UNCHANGED <<config_file, cache_file, generated, bars>>
                   ELSE LoadAndLaunch(wm_r.val, detected.val, force_update)
    /\ UNCHANGED <<arg, res, env, template, prompt, spawn>>

\* main.rs: check_configuration.  The configuration is loaded (and created
\* when missing) before the window manager is detected; find_matches is
\* only printed.
Check ==
    /\ ops < MaxOps /\ ops' = ops + 1
    /\ LET cfg == load_config(config_file)
           wm_r == detect_window_manager(env)
       IN  \E detected \in Detections :
             IF ~wm_r.ok \/ ~detected.ok
             THEN /\ run' = [Op("check") EXCEPT !.result = IF ~wm_r.ok THEN wm_r.err ELSE detected.err]
                  /\ config_file' = Some(cfg)
             ELSE LET connected == detected.val
                      needs_update == ~lists_match(cfg.available_monitors, connected)
                  IN  \E line \in (IF needs_update THEN CheckAnswers ELSE {<<>>}) :
                         /\ run' = [Op("check") EXCEPT
                                       !.result = "ok", !.wm = wm_r.val, !.connected = connected,
                                       !.mode = cfg.mode, !.preferred = cfg.preferred_monitor,
                                       !.asked = IF needs_update THEN Some(Ok(line)) ELSE None,
                                       !.available = cfg.available_monitors,
                                       !.needs_update = needs_update]
                         /\ config_file' =
                               IF needs_update /\ ask_update_config_sync(line)
                               THEN Some([cfg EXCEPT !.available_monitors = connected])
                               ELSE Some(cfg)
    /\ UNCHANGED <<arg, res, env, cache_file, template, generated, bars, prompt, spawn>>

\* the numbers the user may type at a prompt (0: anything that is no number)
Choices == 0..MaxConnected

\* what the user may type at the selection prompt: ENTER, or one field
Selections == {None} \cup {Some(ns) : ns \in SeqsUpTo(Choices, 1)}

\* main.rs: interactive_config
InteractiveConfig ==
    /\ ops < MaxOps /\ ops' = ops + 1
    /\ LET wm_r == detect_window_manager(env)
           cfg == load_config(config_file)
       IN  \E detected \in Detections :
             IF ~wm_r.ok \/ ~detected.ok
             THEN /\ run' = [Op("config") EXCEPT !.result = IF ~wm_r.ok THEN wm_r.err ELSE detected.err]
                  /\ UNCHANGED config_file
             ELSE /\ run' = [Op("config") EXCEPT !.result = "ok"]
                  /\ \E mode \in {"1", "2", "x"} :
                       CASE mode = "1" ->
                              \E choice \in Choices :
                                 config_file' = Some(configure_single_monitor(detected.val, cfg, choice))
                         [] mode = "2" ->
                              \E choice \in Choices, selection \in Selections :
                                 config_file' = Some(configure_multiple_monitors(detected.val, cfg, choice, selection))
                         [] OTHER -> config_file' = Some(cfg)
    /\ UNCHANGED <<arg, res, env, cache_file, template, generated, bars, prompt, spawn>>

\* the user edits, replaces or removes the template file
EditTemplate ==
    /\ \E content \in (TemplateContents \cup {0}) \ {template} : template' = content
    /\ run' = Op("edit")
    /\ ops < MaxOps /\ ops' = ops + 1
    /\ UNCHANGED <<arg, res, env, config_file, cache_file, generated, bars, prompt, spawn>>

\* a generated file is deleted from outside
DeleteGenerated ==
    /\ \E p \in DOMAIN generated : generated' = [q \in DOMAIN generated \ {p} |-> generated[q]]
    /\ run' = Op("delete")
    /\ ops < MaxOps /\ ops' = ops + 1
    /\ UNCHANGED <<arg, res, env, config_file, cache_file, template, bars, prompt, spawn>>

Next == Launch \/ Check \/ InteractiveConfig \/ EditTemplate \/ DeleteGenerated

Spec == Init /\ [][Next]_vars


----------------------------------------------------------------------------
(* SpecPrompt: ask_update_config, the prompt of a launch run *)

\* Duration::from_secs(4)
TimeoutSecs == 4

\* what the user may type: yes in several spellings, no, an empty line, a
\* misspelt yes, the end of the input
PromptLines ==
    {<<"y", "\n">>, <<"Y", "E", "S", "\n">>, <<" ", "y", " ", "\n">>,
     <<"n", "\n">>, <<"\n">>, <<"y", "e", "\n">>, <<>>}

\* the monitors detected by the run that asks
PromptConnected == <<"DP-1">>

\* the state when recv_timeout is entered: the reader thread is spawned and
\* blocked in read_line, the channel is empty, the clock starts
PromptStart ==
    [main |-> "waiting", reader |-> "reading", stdin |-> None, input |-> <<>>,
     channel |-> <<>>, rx |-> TRUE, elapsed |-> 0, received |-> None, result |-> None,
     config |-> DefaultConfig]

promptRest == <<arg, res, env, config_file, cache_file, template, generated, bars, run, spawn, ops>>

InitPrompt ==
    /\ arg = [fn |-> "none"]
    /\ res = Pending
    /\ env = [hypr_sig |-> FALSE, mango |-> FALSE, niri |-> FALSE]
    /\ config_file = None
    /\ cache_file = None
    /\ template = 0
    /\ generated = EmptyFiles
    /\ bars = {}
    /\ run = NoRun
    /\ prompt = PromptStart
    /\ spawn = <<>>
    /\ ops = 0

\* the user types a line, at any time
UserTypes ==
    /\ prompt.stdin = None
    /\ \E line \in PromptLines : prompt' = [prompt EXCEPT !.stdin = Some(line)]
    /\ UNCHANGED promptRest

\* reader thread: io::stdin().read_line(&mut input) returns Ok
ReaderReads ==
    /\ prompt.reader = "reading" /\ IsSome(prompt.stdin)
    /\ prompt' = [prompt EXCEPT !.reader = "read", !.input = Unwrap(prompt.stdin)]
    /\ UNCHANGED promptRest

\* reader thread: read_line returns Err; the thread ends and drops tx
ReadFails ==
    /\ prompt.reader = "reading"
    /\ prompt' = [prompt EXCEPT !.reader = "exit"]
    /\ UNCHANGED promptRest

\* reader thread: tx.send(input).ok() -- an error (rx dropped) is ignored
ReaderSends ==
    /\ prompt.reader = "read"
    /\ prompt' = [prompt EXCEPT !.reader = "exit",
                                !.channel = IF prompt.rx THEN Append(@, prompt.input) ELSE @]
    /\ UNCHANGED promptRest

\* a second passes while the main thread waits
Tick ==
    /\ prompt.main = "waiting" /\ prompt.elapsed < TimeoutSecs
    /\ prompt' = [prompt EXCEPT !.elapsed = @ + 1]
    /\ UNCHANGED promptRest

\* main thread: ask_update_config returns; rx is dropped
Return(received) ==
    [prompt EXCEPT !.main = "returned", !.rx = FALSE, !.channel = <<>>,
                   !.received = IF received.ok THEN Some(received.val) ELSE None,
                   !.result = Some(ask_update_config_match(received))]

\* main thread: recv_timeout returns Ok(input)
Receive ==
    /\ prompt.main = "waiting" /\ prompt.channel # <<>>
    /\ prompt' = Return(Ok(Head(prompt.channel)))
    /\ UNCHANGED promptRest

\* main thread: recv_timeout returns Err(Timeout), the channel being empty
\* when the time is up
Timeout ==
    /\ prompt.main = "waiting" /\ prompt.channel = <<>> /\ prompt.elapsed = TimeoutSecs
    /\ prompt' = Return(Err("timeout"))
    /\ UNCHANGED promptRest

\* main thread: recv_timeout returns Err(Disconnected), the reader having
\* ended without sending
Disconnected ==
    /\ prompt.main = "waiting" /\ prompt.channel = <<>> /\ prompt.reader = "exit"
    /\ prompt' = Return(Err("disconnected"))
    /\ UNCHANGED promptRest

\* main thread: launch_waybar goes on with the answer (step 5)
ApplyAnswer ==
    /\ prompt.main = "returned"
    /\ prompt' = [prompt EXCEPT
                      !.main = "finished",
                      !.config = launch_update_config(@, PromptConnected, TRUE, FALSE,
                                                      Unwrap(prompt.result))]
    /\ UNCHANGED promptRest

NextPrompt ==
    \/ UserTypes
    \/ ReaderReads
    \/ ReadFails
    \/ ReaderSends
    \/ Tick
    \/ Receive
    \/ Timeout
    \/ Disconnected
    \/ ApplyAnswer

SpecPrompt == InitPrompt /\ [][NextPrompt]_vars


----------------------------------------------------------------------------
(* SpecSpawn: steps 7 and 8 of launch_waybar, process by process *)

\* a waybar process: the config it was started with, and whether it was
\* already running when the run began
Bar(config_path, old) == [config_path |-> config_path, old |-> old]

\* the launch runs that reach step 7: the configuration, the detected list
\* (a monitor may be listed twice) and the bars running beforehand
SpawnRuns ==
    [cfg : {Display(p, <<>>, m) : p \in {"", "DP-1"}, m \in {"single", "multiple"}},
     connected : SeqsUpTo(SysMonitors, MaxConnLen) \ {<<>>},
     old : {{}, {Bar(<<"mango", "DP-1", "full">>, TRUE)}}]

spawnRest == <<arg, res, env, config_file, cache_file, template, generated, bars, run, prompt, ops>>

InitSpawn ==
    /\ arg = [fn |-> "none"]
    /\ res = Pending
    /\ env = [hypr_sig |-> FALSE, mango |-> TRUE, niri |-> FALSE]
    /\ config_file = None
    /\ cache_file = None
    /\ template = 0
    /\ generated = EmptyFiles
    /\ bars = {}
    /\ run = NoRun
    /\ prompt = <<>>
    /\ ops = 0
    /\ \E r \in SpawnRuns :
          spawn = [pc |-> "step7", cfg |-> r.cfg, wm |-> detect_window_manager(env).val,
                   connected |-> r.connected,
                   monitors_to_use |-> monitors_to_use(r.cfg, r.connected),
                   before |-> r.old, running |-> r.old, todo |-> {}, started |-> <<>>]

\* main.rs: step 7 -- if waybar is running, kill it and wait; then
\* launch_waybar_instances computes its map
KillStep ==
    /\ spawn.pc = "step7"
    /\ spawn' = [spawn EXCEPT
                    !.pc = "step8",
                    !.running = IF is_waybar_running(@) THEN kill_waybar(@) ELSE @,
                    !.todo = DOMAIN determine_config_assignments(spawn.cfg, spawn.monitors_to_use)]
    /\ UNCHANGED spawnRest

\* templates.rs: launch_waybar_instances, one turn of the loop over the
\* map (a HashMap: any entry not yet visited may come next)
SpawnNext ==
    /\ spawn.pc = "step8"
    /\ \E monitor \in spawn.todo :
          LET config_assignments == determine_config_assignments(spawn.cfg, spawn.monitors_to_use)
              config_path == get_generated_config_path(spawn.wm, monitor, config_assignments[monitor])
          IN  spawn' = [spawn EXCEPT
                           !.todo = @ \ {monitor},
                           !.running = @ \cup {Bar(config_path, FALSE)},
                           !.started = Append(@, [monitor |-> monitor, config_path |-> config_path])]
    /\ UNCHANGED spawnRest

\* templates.rs: launch_waybar_instances, spawn() fails: "Error launching waybar"
SpawnFails ==
    /\ spawn.pc = "step8" /\ spawn.todo # {}
    /\ spawn' = [spawn EXCEPT !.pc = "failed"]
    /\ UNCHANGED spawnRest

\* the loop is over; the run reports success
SpawnDone ==
    /\ spawn.pc = "step8" /\ spawn.todo = {}
    /\ spawn' = [spawn EXCEPT !.pc = "done"]
    /\ UNCHANGED spawnRest

NextSpawn == KillStep \/ SpawnNext \/ SpawnFails \/ SpawnDone

SpecSpawn == InitSpawn /\ [][NextSpawn]_vars


----------------------------------------------------------------------------
(* Claims about the launch run (Spec) *)

\* C3: a launch run that directly follows a successful regenerating launch
\* run, with the same window manager, template content, detected monitors,
\* mode and preferred monitor, takes the no-regeneration branch and changes
\* no generated file.
C3_SecondRunSkips ==
    (run.kind = "launch" /\ run.repeat) =>
        (run.decision = "skip" /\ ~run.files_changed)

\* C3 witness: such a second run happened, in single mode with two monitors
\* connected, and went on to start the bar.
C3_Witness ==
    /\ run.kind = "launch" /\ run.repeat /\ run.decision = "skip" /\ run.result = "ok"
    /\ run.mode = "single" /\ Len(run.connected) = 2

\* C4: in every launch run that skips regeneration, the generated file of
\* every monitor's assigned variant -- the path handed to the bar -- exists.
C4_SkipRunFilesExist ==
    (run.kind = "launch" /\ run.decision = "skip") =>
        \A s \in run.spawned : s.config_path \in DOMAIN generated

FullMonitors(map) == {m \in DOMAIN map : map[m] = Full}

\* C6 as stated: every assignment map computed during a run gives Full to
\* exactly one monitor and Simple to every other, never Custom.
C6_Original_ExactlyOneFull ==
    \A i \in 1..Len(run.assign_calls) :
        LET map == run.assign_calls[i].map
        IN  /\ Cardinality(FullMonitors(map)) = 1
            /\ \A m \in DOMAIN map \ FullMonitors(map) : map[m] = Simple

\* C6 amended: a map for one monitor gives it Full; a map for a longer list
\* gives Full to the preferred monitor exactly when it is connected and
\* Simple to every other monitor, so no monitor is Full when the preferred
\* one is not connected; Custom is never assigned.
C6_FullOnlyForConnectedPreferred ==
    \A i \in 1..Len(run.assign_calls) :
        LET call == run.assign_calls[i]
            full == FullMonitors(call.map)
        IN  /\ Len(call.connected) = 1 => full = {call.connected[1]}
            /\ Len(call.connected) > 1 => full = {run.preferred} \cap Range(call.connected)
            /\ Cardinality(full) <= 1
            /\ \A m \in DOMAIN call.map \ full : call.map[m] = Simple

\* C6 witness: a run computed a map for two monitors in which none is Full.
C6_Witness ==
    /\ run.kind = "launch" /\ run.result = "ok"
    /\ \E i \in 1..Len(run.assign_calls) :
          /\ Len(run.assign_calls[i].connected) = 2
          /\ FullMonitors(run.assign_calls[i].map) = {}

\* C7: in single mode every call of the assignment engine made by a launch
\* run receives the list narrowed to the preferred monitor, or to the first
\* detected monitor when the preferred one is not connected, so generation
\* and launching use the same map.
C7_SingleModeCallsNarrowed ==
    (run.kind = "launch" /\ run.mode = "single") =>
        \A i \in 1..Len(run.assign_calls) :
            /\ run.assign_calls[i].connected =
                   IF run.preferred \in Range(run.connected)
                   THEN <<run.preferred>> ELSE <<run.connected[1]>>
            /\ run.assign_calls[i].map = run.assign_calls[1].map

\* the launch run regenerated the files and went on
Regenerated == run.kind = "launch" /\ run.decision = "regenerate" /\ run.result = "ok"

\* the generated file of monitor m is the template document tpl with
\* "output" set to m and nothing else changed
IsTemplateWithOutput(doc, tpl, m) ==
    /\ doc.kind = "object" /\ tpl.kind = "object"
    /\ DOMAIN doc.members = DOMAIN tpl.members \cup {"output"}
    /\ doc.members["output"] = m
    /\ \A k \in DOMAIN tpl.members \ {"output"} : doc.members[k] = tpl.members[k]

\* C16: after a regenerating run every generated file written for a monitor
\* is the template document of the monitor's variant with the top-level key
\* "output" set to the monitor, whatever document the loader accepted.
C16_GeneratedIsTemplateWithOutput ==
    Regenerated =>
        LET map == run.assign_calls[1].map
            templates == load_templates(run.template)
        IN  \A m \in DOMAIN map :
               \E i \in 1..Len(templates) :
                  /\ templates[i].template_type = map[m]
                  /\ IsTemplateWithOutput(generated[get_generated_config_path(run.wm, m, map[m])],
                                          templates[i].config, m)

\* what holds of the code: the same for the templates that are objects
C16_ObjectTemplatesGetOutput ==
    (Regenerated /\ run.template = 1) => C16_GeneratedIsTemplateWithOutput

\* the variants that have a template in the file the run read
LoadedVariants(r) == {t.template_type : t \in Range(load_templates(r.template))}

\* the generating launch run r was to write a variant that has no template
VariantMissing(r) ==
    /\ r.kind = "launch" /\ r.decision = "regenerate"
    /\ \E m \in DOMAIN r.assign_calls[1].map : r.assign_calls[1].map[m] \notin LoadedVariants(r)

\* C17: a generating launch run fails with the variant-missing error
\* exactly when some monitor's assigned variant has no loaded template, and
\* such a run leaves the cache entry and the running bars as they were and
\* spawns nothing.
C17_MissingVariantAborts ==
    [][/\ (run'.kind = "launch" /\ run'.decision = "regenerate") =>
             (VariantMissing(run') <=> run'.result = "No template was found")
       /\ VariantMissing(run') =>
             (cache_file' = cache_file /\ bars' = bars /\ run'.spawned = {})]_vars

\* C17 witness: a run failed on a missing variant while bars of an earlier
\* run were up and a cache entry existed; both are still there.
C17_Witness ==
    /\ VariantMissing(run) /\ run.result = "No template was found"
    /\ bars # {} /\ IsSome(cache_file)
    /\ Unwrap(cache_file).template_hash # calculate_template_hash(run.template)

\* the lines that are a yes at the prompt of launch: y or yes, trimmed,
\* in any case
YesLines == {<<"y", "\n">>, <<"Y", "\n">>, <<"y", "e", "s", "\n">>, <<"Y", "E", "S", "\n">>,
             <<" ", "y", " ", "\n">>, <<"y">>}

\* the run r was told to update the configuration
Confirmed(r) ==
    \/ r.kind = "launch" /\ r.force_update
    \/ /\ IsSome(r.asked) /\ Unwrap(r.asked).ok
       /\ \/ Unwrap(r.asked).val \in YesLines
          \/ r.kind = "check" /\ Unwrap(r.asked).val = <<"\n">>

\* C18: a launch or check run never changes preferred_monitor or mode of
\* the persisted configuration, and changes no field of it unless it was
\* forced (launch) or the user gave an accepting answer.
C18_ConfigChangedOnlyWhenConfirmed ==
    [][run'.kind \in {"launch", "check"} =>
          LET old == load_config(config_file)
              new == load_config(config_file')
          IN  /\ new.preferred_monitor = old.preferred_monitor
              /\ new.mode = old.mode
              /\ ~Confirmed(run') => new = old]_vars

\* C18 witness: a launch run found the lists different, asked, was told no,
\* and the configuration still has the old list.
C18_Witness ==
    /\ run.kind = "launch" /\ run.needs_update /\ ~run.force_update
    /\ run.asked = Some(Ok(<<"n", "\n">>))
    /\ run.available # <<>>
    /\ load_config(config_file).available_monitors = run.available
    /\ Range(run.available) # Range(run.connected)

\* C20: launch and check decide that the configuration is out of sync by
\* comparing available_monitors with the detected list as sets, except in
\* single mode, where they decide by preferred_monitor not being detected.
C20_SyncDecisionBySetsOrPreferred ==
    (run.kind \in {"launch", "check"} /\ run.connected # <<>>) =>
        run.needs_update =
            IF run.mode = "single"
            THEN run.preferred \notin Range(run.connected)
            ELSE Range(run.available) # Range(run.connected)

\* what holds of the code: launch decides so; check compares the lists in
\* single mode too
C20_LaunchDecidesSo ==
    run.kind = "launch" => C20_SyncDecisionBySetsOrPreferred

\* C19: in every interleaving of the main thread, the reader thread, the
\* user and the clock: the prompt answers yes only when a line was received
\* and that line is y or yes (trimmed, any case); when no line was received
\* before recv_timeout gave up -- the 4 seconds being over, or the reader
\* having ended -- it answers no and the configuration is not updated; and
\* once it has answered, input that arrives later changes neither the
\* answer nor the configuration.
C19_PromptTimeoutDefaultsToNo ==
    /\ [](prompt.main # "waiting" =>
            /\ prompt.result =
                  Some(IF IsSome(prompt.received) THEN Unwrap(prompt.received) \in YesLines ELSE FALSE)
            /\ (~IsSome(prompt.received) =>
                   (prompt.elapsed = TimeoutSecs \/ prompt.reader = "exit"))
            /\ prompt.channel = <<>>
            /\ (prompt.main = "finished" =>
                   prompt.config.available_monitors =
                       IF Unwrap(prompt.result) THEN PromptConnected ELSE <<>>))
    /\ [][/\ (prompt.main # "waiting" =>
                 (prompt'.result = prompt.result /\ prompt'.received = prompt.received))
           /\ (prompt.main = "finished" => prompt'.config = prompt.config)]_vars

\* C19 witness: the time ran out, the run went on without updating, and
\* the yes typed afterwards was read and sent by the reader to no effect.
C19_Witness ==
    /\ prompt.main = "finished" /\ prompt.received = None /\ prompt.elapsed = TimeoutSecs
    /\ prompt.reader = "exit" /\ prompt.input = <<"y", "\n">>
    /\ prompt.result = Some(FALSE)
    /\ prompt.config = DefaultConfig

\* the errors of detection: no supported window manager, no monitors found
DetectionErrors ==
    {"No compatible window manager was detected (Hyprland, Mango, Niri)",
     "No monitors were detected"}

\* C21: a launch or check run that fails with a detection error leaves the
\* config file, the cache file and the generated files exactly as they
\* were, and the running bars too.
C21_DetectionErrorLeavesNoOutput ==
    [][(run'.kind \in {"launch", "check"} /\ run'.result \in DetectionErrors) =>
          /\ config_file' = config_file
          /\ cache_file' = cache_file
          /\ generated' = generated
          /\ bars' = bars]_vars

\* what holds of the code: a launch run that fails so leaves everything; a
\* check run that fails so has loaded the configuration first, which
\* creates the file when it is missing
C21_OnlyCheckCreatesTheConfig ==
    [][(run'.kind \in {"launch", "check"} /\ run'.result \in DetectionErrors) =>
          /\ config_file' # config_file =>
                (run'.kind = "check" /\ config_file = None /\ config_file' = Some(DefaultConfig))
          /\ cache_file' = cache_file
          /\ generated' = generated
          /\ bars' = bars]_vars

\* the target monitors of the launch run r: every detected monitor in
\* multiple mode; in single mode the preferred monitor, or the first
\* detected one when the preferred one is not connected
TargetMonitors(r) ==
    IF r.mode = "single"
    THEN IF r.preferred \in Range(r.connected) THEN <<r.preferred>> ELSE <<r.connected[1]>>
    ELSE r.connected

\* C22: a step in which a launch run generates successfully leaves a cache
\* entry with the hash of the current template, the run's target monitors
\* and the configuration's preferred monitor; every other step -- a run
\* that skips regeneration, a run whose generation fails, any other
\* operation -- leaves the cache file unchanged.
C22_CacheWrittenExactlyOnGeneration ==
    [][IF run'.kind = "launch" /\ run'.decision = "regenerate" /\ run'.result = "ok"
       THEN /\ IsSome(cache_file')
            /\ Unwrap(cache_file').template_hash = calculate_template_hash(template')
            /\ Unwrap(cache_file').monitors = TargetMonitors(run')
            /\ Unwrap(cache_file').preferred_monitor = load_config(config_file').preferred_monitor
       ELSE cache_file' = cache_file]_vars

\* C22 witness: a single-mode run with two monitors detected regenerated;
\* the entry names the one narrowed monitor.
C22_Witness ==
    /\ run.kind = "launch" /\ run.decision = "regenerate" /\ run.result = "ok"
    /\ run.mode = "single" /\ Len(run.connected) = 2
    /\ run.template = 1 /\ run.preferred = "eDP-1"
    /\ cache_file = Some(CacheEntry(calculate_template_hash(1), <<"eDP-1">>, "eDP-1"))

\* the target list of the run in SpecSpawn, as TargetMonitors gives it
SpawnTarget ==
    TargetMonitors([mode |-> spawn.cfg.mode, preferred |-> spawn.cfg.preferred_monitor,
                    connected |-> spawn.connected])

\* the file name ending of the variant assigned to monitor m of the list
AssignedVariant(list, preferred, m) ==
    IF Len(list) = 1 \/ m = preferred THEN "full" ELSE "simple"

====
